---- MODULE Spec2Model ----
(***************************************************************************)
(* A model of the BetterSale customer-service repository:                  *)
(*   - the SQLite-backed cart / order operations                           *)
(*     (customer_service/database/operations.py, db_tools.py),             *)
(*   - the SSE response parser of the Streamlit client                     *)
(*     (streamlit_components/utils.py, streamlit_app.py),                  *)
(*   - the Streamlit session around process_agent_interaction              *)
(*     (streamlit_components/agent.py, chat.py).                           *)
(*                                                                         *)
(* Modelling conventions                                                   *)
(*   - A Python str that the code inspects character by character (LIKE    *)
(*     patterns, phrase search) is a sequence of one-character strings.    *)
(*   - Prices are integers (cents); the code uses floats, and every claim  *)
(*     checked here compares a value with the same arithmetic expression.  *)
(*   - Order ids come from uuid4().hex[:8]; a draw is an element of        *)
(*     OrderIds that no existing order uses (a collision of the prefix is  *)
(*     outside the model).                                                 *)
(*   - Dates and timestamps are not modelled.                              *)
(***************************************************************************)
EXTENDS Integers, Sequences, FiniteSets, TLC

VARIABLES
    products,       \* table products:    product id -> row
    customers,      \* table customers:   the ids of its rows
    cart_items,     \* table cart_items:  rows in rowid order
    orders,         \* table orders:      the set of rows, id the primary key
    order_items,    \* table order_items: rows in rowid order
    last,           \* the last call made against the database and what it returned
    parser,         \* which parse_sse_response the client runs
    response,       \* the SSE response the client holds: its "data:" chunks
    parsed,         \* what parse_sse_response did with the response
    order_details,  \* st.session_state.order_details
    messages,       \* st.session_state.messages
    processing_message,     \* st.session_state.processing_message
    run_posts,              \* the message last sent to the agent and the run POSTs made with it
    session_request,        \* the session-creation requests so far: none, the last failed, one succeeded, or one followed a success
    session_initialized,    \* st.session_state.session_initialized
    order_confirmed,        \* st.session_state.order_confirmed
    order_submitted,        \* st.session_state.order_submitted
    order_submission_state, \* st.session_state.order_submission_state
    session_cart,   \* st.session_state.cart: "empty" or "items"
    pc,             \* where the script of the session is
    assistant_response_text \* the local of process_agent_interaction

dbVars == <<products, customers, cart_items, orders, order_items>>

parseVars == <<parser, response, parsed>>

sessionVars == <<messages, processing_message, run_posts, session_request,
                 session_initialized,
                 order_confirmed, order_submitted, order_submission_state,
                 session_cart, pc, assistant_response_text>>

clientVars == <<parser, response, parsed, order_details, sessionVars>>

vars == <<products, customers, cart_items, orders, order_items, last,
          parser, response, parsed, order_details,
          messages, processing_message, run_posts, session_request,
          session_initialized,
          order_confirmed, order_submitted, order_submission_state,
          session_cart, pc, assistant_response_text>>

\* parse_sse_response has not run on the response
NotParsed ==
    [state |-> "pending", assistant_reply |-> [present |-> FALSE, chars |-> <<>>],
     tool_outputs |-> {}, order_confirmed |-> FALSE]

\* 'order_details' not in st.session_state
NoDetails == [present |-> FALSE, value |-> [form |-> "absent", data |-> "none"]]

\* the first message of a session
HelloMessage ==
    [role |-> "user", content |-> "Hello, can you show me my account information?"]

\* assistant_response_text = None
NoResponseText == [present |-> FALSE, text |-> ""]

\* the session state the first run of the script sets up; keys the script
\* does not create (order_confirmed, order_submitted, order_submission_state)
\* have the value every read of them takes them to have when absent
SessionStart ==
    /\ messages = <<HelloMessage>>
    /\ processing_message = FALSE
    /\ run_posts = [message |-> 0, posts |-> 0]
    /\ session_request = "none"
    /\ session_initialized = FALSE
    /\ order_confirmed = FALSE
    /\ order_submitted = FALSE
    /\ order_submission_state = "None"
    /\ session_cart = "empty"
    /\ pc = "idle"
    /\ assistant_response_text = NoResponseText

\* a client that has received nothing
ClientIdle ==
    /\ parser = "streamlit_components/utils.py"
    /\ response = <<>>
    /\ parsed = NotParsed
    /\ order_details = NoDetails
    /\ SessionStart

----------------------------------------------------------------------------
(* Strings as character sequences                                          *)

UpperCase == <<"A","B","C","D","E","F","G","H","I","J","K","L","M",
               "N","O","P","Q","R","S","T","U","V","W","X","Y","Z">>

LowerCase == <<"a","b","c","d","e","f","g","h","i","j","k","l","m",
               "n","o","p","q","r","s","t","u","v","w","x","y","z">>

\* str.lower() / SQLite's ASCII case folding, one character
LowerChar(ch) ==
    IF \E i \in 1..Len(UpperCase) : UpperCase[i] = ch
    THEN LowerCase[CHOOSE i \in 1..Len(UpperCase) : UpperCase[i] = ch]
    ELSE ch

\* str.lower()
Lower(s) == [i \in 1..Len(s) |-> LowerChar(s[i])]

\* Python's `sub in s`
Contains(s, sub) ==
    \E i \in 0..(Len(s) - Len(sub)) : SubSeq(s, i + 1, i + Len(sub)) = sub

----------------------------------------------------------------------------
(* The data the model runs on                                              *)

Customers == {"123", "CUST-80CA281C"}

Tennis == <<"T","e","n","n","i","s">>

Running == <<"R","u","n","n","i","n","g">>

\* two rows of the sample catalogue of init_db (prices in cents)
Catalog ==
    [p \in {"TNB-003", "RUN-S05"} |->
        IF p = "TNB-003"
        THEN [name |-> "Tennis Balls (3-pack)", price |-> 599, sport |-> Tennis]
        ELSE [name |-> "CloudRunner Running Shoes", price |-> 13999, sport |-> Running]]

ProductIds == DOMAIN Catalog

\* a product id that no products row has (init_db's order history names one)
UnknownProduct == "TNR-001"

\* the values uuid4().hex[:8] takes in the model
OrderIds == {"ORD-0A1B2C3D", "ORD-4E5F6A7B"}

\* the total quantity the cart and order rows may hold
MaxUnits == 3

NoCall == [op |-> "none"]

----------------------------------------------------------------------------
(* operations.py: cart                                                     *)

\* the subtotal with the quantity factor dropped (mutant of SumSubtotal)
SumSubtotal_PricesOnly(items) ==
    LET f[i \in 0..Len(items)] == IF i = 0 THEN 0 ELSE f[i - 1] + items[i].price
    IN  f[Len(items)]

RECURSIVE SumSubtotal(_)
\* sum(item["price"] * item["quantity"] for item in items)
SumSubtotal(items) ==
    IF items = <<>> THEN 0
    ELSE Head(items).price * Head(items).quantity + SumSubtotal(Tail(items))

\* session.query(CartItem, Product).join(...).filter(customer_id == c).all()
CartJoin(cart, prods, c) ==
    SelectSeq(cart, LAMBDA r : r.customer_id = c /\ r.product_id \in DOMAIN prods)

\* access_cart_information: the returned dictionary
CartInformation(cart, prods, c) ==
    LET rows  == CartJoin(cart, prods, c)
        items == [i \in 1..Len(rows) |->
                    [product_id |-> rows[i].product_id,
                     name       |-> prods[rows[i].product_id].name,
                     quantity   |-> rows[i].quantity,
                     price      |-> prods[rows[i].product_id].price]]
    IN  [cart |-> items, subtotal |-> SumSubtotal(items)]

\* int(quantity) with the <= 0 and ValueError/TypeError fallbacks
NormalQuantity(item) ==
    IF item.quantity_is_int /\ item.quantity > 0 THEN item.quantity ELSE 1

\* index of the first cart row of customer c for product p, 0 when there is none
FirstRow(cart, c, p) ==
    IF \E i \in 1..Len(cart) : cart[i].customer_id = c /\ cart[i].product_id = p
    THEN CHOOSE i \in 1..Len(cart) :
            /\ cart[i].customer_id = c /\ cart[i].product_id = p
            /\ \A j \in 1..(i - 1) : ~(cart[j].customer_id = c /\ cart[j].product_id = p)
    ELSE 0

\* the add step with "quantity = quantity" for "quantity += quantity" (mutant of AddOne)
AddOne_Overwrite(cart, prods, c, item) ==
    LET p == item.product_id
        q == IF item.quantity_is_int /\ item.quantity > 0 THEN item.quantity ELSE 1
        k == IF \E i \in 1..Len(cart) : cart[i].customer_id = c /\ cart[i].product_id = p
             THEN CHOOSE i \in 1..Len(cart) :
                     cart[i].customer_id = c /\ cart[i].product_id = p
             ELSE 0
    IN  IF p \notin DOMAIN prods THEN cart
        ELSE IF k > 0
        THEN [cart EXCEPT ![k].quantity = q]
        ELSE Append(cart, [customer_id |-> c, product_id |-> p, quantity |-> q])

\* the add step that never finds an existing row and always inserts
AddOne_AlwaysInsert(cart, prods, c, item) ==
    IF item.product_id \notin DOMAIN prods THEN cart
    ELSE Append(cart, [customer_id |-> c, product_id |-> item.product_id,
                       quantity |-> NormalQuantity(item)])

\* one iteration of the "Add items to cart" loop on a dictionary item
AddOne(cart, prods, c, item) ==
    LET p == item.product_id
        q == NormalQuantity(item)
        k == FirstRow(cart, c, p)
    IN  IF p \notin DOMAIN prods THEN cart
        ELSE IF k > 0
        THEN [cart EXCEPT ![k].quantity = @ + q]
        ELSE Append(cart, [customer_id |-> c, product_id |-> p, quantity |-> q])

\* one iteration of the "Remove items from cart" loop on a dictionary item
RemoveOne(cart, c, item) ==
    SelectSeq(cart, LAMBDA r : ~(r.customer_id = c /\ r.product_id = item.product_id))

RECURSIVE AddLoop(_, _, _, _, _)
\* the add loop: [raised, cart, items_added]; item.get on a non-dict raises
AddLoop(cart, prods, c, items, added) ==
    IF items = <<>> THEN [raised |-> FALSE, cart |-> cart, items_added |-> added]
    ELSE IF ~Head(items).is_dict
    THEN [raised |-> TRUE, cart |-> cart, items_added |-> added]
    ELSE AddLoop(AddOne(cart, prods, c, Head(items)), prods, c, Tail(items),
                 added \/ Head(items).product_id \in DOMAIN prods)

RECURSIVE RemoveLoop(_, _, _, _)
\* the remove loop: [raised, cart, items_removed]
RemoveLoop(cart, c, items, removed) ==
    IF items = <<>> THEN [raised |-> FALSE, cart |-> cart, items_removed |-> removed]
    ELSE IF ~Head(items).is_dict
    THEN [raised |-> TRUE, cart |-> cart, items_removed |-> removed]
    ELSE RemoveLoop(RemoveOne(cart, c, Head(items)), c, Tail(items),
                    removed \/ FirstRow(cart, c, Head(items).product_id) > 0)

\* modify_cart that commits what the loops did before the exception
ModifyCartEffect_NoRollback(cart, prods, c, items_to_add, items_to_remove) ==
    LET a == AddLoop(cart, prods, c, items_to_add, FALSE)
        r == RemoveLoop(a.cart, c, items_to_remove, FALSE)
    IN  IF a.raised \/ r.raised
        THEN [cart   |-> IF a.raised THEN a.cart ELSE r.cart,
              result |-> [status |-> "error"]]
        ELSE [cart   |-> r.cart,
              result |-> [status        |-> "success",
                          message       |-> "Cart updated successfully.",
                          items_added   |-> a.items_added,
                          items_removed |-> r.items_removed]]

\* modify_cart: the committed cart table and the returned dictionary
ModifyCartEffect(cart, prods, c, items_to_add, items_to_remove) ==
    LET a == AddLoop(cart, prods, c, items_to_add, FALSE)
        r == RemoveLoop(a.cart, c, items_to_remove, FALSE)
    IN  IF a.raised \/ r.raised
        THEN [cart   |-> cart,       \* session.rollback()
              result |-> [status |-> "error"]]
        ELSE [cart   |-> r.cart,     \* session.commit()
              result |-> [status        |-> "success",
                          message       |-> "Cart updated successfully.",
                          items_added   |-> a.items_added,
                          items_removed |-> r.items_removed]]

RECURSIVE Units(_)
\* the total of the quantity column of a sequence of rows
Units(rows) ==
    IF rows = <<>> THEN 0 ELSE Head(rows).quantity + Units(Tail(rows))

\* modify_cart(customer_id, items_to_add, items_to_remove)
ModifyCart(c, items_to_add, items_to_remove) ==
    LET e == ModifyCartEffect(cart_items, products, c, items_to_add, items_to_remove)
    IN  /\ Units(e.cart) + Units(order_items) <= MaxUnits
        /\ cart_items' = e.cart
        /\ last' = [op |-> "modify_cart", customer_id |-> c,
                    items_to_add |-> items_to_add,
                    items_to_remove |-> items_to_remove,
                    result |-> e.result]
        /\ UNCHANGED <<products, customers, orders, order_items>>
        /\ UNCHANGED clientVars

\* access_cart_information(customer_id)
AccessCartInformation(c) ==
    /\ last' = [op |-> "access_cart_information", customer_id |-> c,
                result |-> CartInformation(cart_items, products, c)]
    /\ UNCHANGED dbVars
    /\ UNCHANGED clientVars

----------------------------------------------------------------------------
(* operations.py, db_tools.py: orders                                      *)

\* the cart-clearing delete without its customer filter (mutant of ClearCart)
ClearCart_Nothing(cart, c) == cart

\* session.query(CartItem).filter(CartItem.customer_id == customer_id).delete()
ClearCart(cart, c) == SelectSeq(cart, LAMBDA r : r.customer_id # c)

\* Order(id=order_id, customer_id=customer_id, status="Processing", total=subtotal)
OrderRow(oid, c, cart_data) ==
    [id |-> oid, customer_id |-> c, status |-> "Processing",
     total |-> cart_data.subtotal]

\* order items that all carry quantity 1 (mutant of OrderItemRows)
OrderItemRows_UnitQuantity(oid, items) ==
    [i \in 1..Len(items) |->
        [order_id |-> oid, product_id |-> items[i].product_id,
         quantity |-> 1, price |-> items[i].price]]

\* one OrderItem per cart entry
OrderItemRows(oid, items) ==
    [i \in 1..Len(items) |->
        [order_id   |-> oid,
         product_id |-> items[i].product_id,
         quantity   |-> items[i].quantity,
         price      |-> items[i].price]]

\* create_order without the "Cart is empty" return (mutant of CreateOrderEffect)
CreateOrderEffect_NoEmptyCheck(cart, prods, ords, oitems, c, oid) ==
    LET cart_data == CartInformation(cart, prods, c)
        order     == OrderRow(oid, c, cart_data)
    IN  [inserted    |-> TRUE,
         cart        |-> ClearCart(cart, c),
         orders      |-> ords \cup {order},
         order_items |-> oitems \o OrderItemRows(oid, cart_data.cart),
         result      |-> [status      |-> "success",
                          order_id    |-> oid,
                          items       |-> [i \in 1..Len(cart_data.cart) |->
                                              [product_id |-> cart_data.cart[i].product_id,
                                               quantity   |-> cart_data.cart[i].quantity]],
                          order_total |-> order.total]]

\* create_order: the committed tables, the returned dictionary and whether an
\* orders row was inserted; oid is the order id drawn
CreateOrderEffect(cart, prods, ords, oitems, c, oid) ==
    LET cart_data == CartInformation(cart, prods, c)
        order     == OrderRow(oid, c, cart_data)
    IN  IF cart_data.cart = <<>>
        THEN [inserted |-> FALSE,
              cart |-> cart, orders |-> ords, order_items |-> oitems,
              result |-> [status |-> "error", message |-> "Cart is empty"]]
        ELSE [inserted    |-> TRUE,
              cart        |-> ClearCart(cart, c),
              orders      |-> ords \cup {order},
              order_items |-> oitems \o OrderItemRows(oid, cart_data.cart),
              result      |-> [status      |-> "success",
                               order_id    |-> oid,
                               items       |-> [i \in 1..Len(cart_data.cart) |->
                                                   [product_id |-> cart_data.cart[i].product_id,
                                                    quantity   |-> cart_data.cart[i].quantity]],
                               order_total |-> order.total]]

\* the order id drawn is new whenever an orders row is inserted
FreshDraw(e, oid) ==
    e.inserted => \A o \in orders : o.id # oid

\* create_order(customer_id)
CreateOrder(c, oid) ==
    LET e == CreateOrderEffect(cart_items, products, orders, order_items, c, oid)
    IN  /\ FreshDraw(e, oid)
        /\ cart_items' = e.cart
        /\ orders' = e.orders
        /\ order_items' = e.order_items
        /\ last' = [op |-> "create_order", customer_id |-> c, result |-> e.result]
        /\ UNCHANGED <<products, customers>>
        /\ UNCHANGED clientVars

\* operations.update_salesforce_crm: tables and returned dictionary; the dict
\* literal of the order branch names "status" twice, so "Processing" is kept
OpsUpdateSalesforceCrmEffect(cart, prods, ords, oitems, c, details, oid) ==
    LET e == CreateOrderEffect(cart, prods, ords, oitems, c, oid)
        unchanged == [inserted |-> FALSE, cart |-> cart, orders |-> ords,
                      order_items |-> oitems]
        db == IF "items" \in details THEN e ELSE unchanged
    IN  [inserted |-> db.inserted,
         cart |-> db.cart, orders |-> db.orders, order_items |-> db.order_items,
         result |->
            IF "items" \in details /\ e.result.status = "success"
            THEN [status      |-> "Processing",
                  message     |-> "Order created and Salesforce record updated.",
                  order_id    |-> e.result.order_id,
                  order_total |-> e.result.order_total]
            ELSE [status |-> "success", message |-> "Salesforce record updated."]]

\* db_tools.update_salesforce_crm that creates the order whatever the details
\* hold (mutant of ToolsUpdateSalesforceCrmEffect)
ToolsUpdateSalesforceCrmEffect_Always(cart, prods, ords, oitems, c, details, oid) ==
    LET e == CreateOrderEffect(cart, prods, ords, oitems, c, oid)
    IN  [inserted |-> e.inserted,
         cart |-> e.cart, orders |-> e.orders, order_items |-> e.order_items,
         result |-> [status |-> e.result.status]]

\* db_tools.update_salesforce_crm: tables and returned dictionary
ToolsUpdateSalesforceCrmEffect(cart, prods, ords, oitems, c, details, oid) ==
    LET e == CreateOrderEffect(cart, prods, ords, oitems, c, oid)
    IN  IF "items" \in details
        THEN [inserted |-> e.inserted,
              cart |-> e.cart, orders |-> e.orders, order_items |-> e.order_items,
              result |->
                IF e.result.status = "success"
                THEN [status      |-> "Processing",
                      message     |-> "Order created and Salesforce record updated.",
                      order_id    |-> e.result.order_id,
                      order_total |-> e.result.order_total,
                      items       |-> e.result.items]
                ELSE [status  |-> "error",
                      message |-> "Failed to create order: Cart is empty"]]
        ELSE OpsUpdateSalesforceCrmEffect(cart, prods, ords, oitems, c, details, oid)

\* operations.update_salesforce_crm(customer_id, details)
OpsUpdateSalesforceCrm(c, details, oid) ==
    LET e == OpsUpdateSalesforceCrmEffect(cart_items, products, orders, order_items,
                                         c, details, oid)
    IN  /\ FreshDraw(e, oid)
        /\ cart_items' = e.cart
        /\ orders' = e.orders
        /\ order_items' = e.order_items
        /\ last' = [op |-> "operations.update_salesforce_crm", customer_id |-> c,
                    details |-> details, result |-> e.result]
        /\ UNCHANGED <<products, customers>>
        /\ UNCHANGED clientVars

\* db_tools.update_salesforce_crm(customer_id, details)
ToolsUpdateSalesforceCrm(c, details, oid) ==
    LET e == ToolsUpdateSalesforceCrmEffect(cart_items, products, orders, order_items,
                                           c, details, oid)
    IN  /\ FreshDraw(e, oid)
        /\ cart_items' = e.cart
        /\ orders' = e.orders
        /\ order_items' = e.order_items
        /\ last' = [op |-> "db_tools.update_salesforce_crm", customer_id |-> c,
                    details |-> details, result |-> e.result]
        /\ UNCHANGED <<products, customers>>
        /\ UNCHANGED clientVars

----------------------------------------------------------------------------
(* operations.py: product recommendations                                  *)

RECURSIVE Like(_, _)
\* SQL LIKE on lower-cased operands: % matches any run of characters, _ any one
\* character, every other pattern character itself (no escape character is set)
Like(pattern, s) ==
    IF pattern = <<>> THEN s = <<>>
    ELSE IF Head(pattern) = "%"
    THEN \E k \in 0..Len(s) : Like(Tail(pattern), SubSeq(s, k + 1, Len(s)))
    ELSE /\ s # <<>>
         /\ Head(pattern) = "_" \/ Head(pattern) = Head(s)
         /\ Like(Tail(pattern), Tail(s))

\* Product.sport.ilike(f"%{sport_or_activity}%")
SportILike(sport, sport_or_activity) ==
    Like(Lower(<<"%">> \o sport_or_activity \o <<"%">>), Lower(sport))

\* get_product_recommendations: the returned dictionary
ProductRecommendations(cart, prods, sport_or_activity, c) ==
    LET cart_data        == CartInformation(cart, prods, c)
        cart_product_ids == {cart_data.cart[i].product_id : i \in 1..Len(cart_data.cart)}
        matching         == {p \in DOMAIN prods : SportILike(prods[p].sport, sport_or_activity)}
    IN  [recommendations |->
            {[product_id |-> p, name |-> prods[p].name, price |-> prods[p].price] :
                p \in matching \ cart_product_ids}]

\* get_product_recommendations(sport_or_activity, customer_id)
GetProductRecommendations(sport_or_activity, c) ==
    /\ last' = [op |-> "get_product_recommendations", customer_id |-> c,
                sport_or_activity |-> sport_or_activity,
                result |-> ProductRecommendations(cart_items, products,
                                                  sport_or_activity, c)]
    /\ UNCHANGED dbVars
    /\ UNCHANGED clientVars

----------------------------------------------------------------------------
(* The requests the model makes                                            *)

Item(p, q) ==
    [is_dict |-> TRUE, product_id |-> p, quantity_is_int |-> TRUE, quantity |-> q]

\* an item whose quantity is missing or not a number ("two")
ItemNoQuantity(p) ==
    [is_dict |-> TRUE, product_id |-> p, quantity_is_int |-> FALSE, quantity |-> 0]

\* an entry that is not a dictionary (a bare product id string)
NotADict ==
    [is_dict |-> FALSE, product_id |-> UnknownProduct, quantity_is_int |-> FALSE,
     quantity |-> 0]

RequestProducts == ProductIds \cup {UnknownProduct}

SingleAdds ==
    {<<Item(p, q)>> : p \in RequestProducts, q \in {0, 1, 2}}
        \cup {<<ItemNoQuantity(p)>> : p \in ProductIds}

DoubleAdds == {<<Item(p, 1), Item(q, 1)>> : p \in ProductIds, q \in ProductIds}

BadAdds == {<<NotADict>>} \cup {<<Item(p, 1), NotADict>> : p \in ProductIds}

Removes == {<<Item(p, 1)>> : p \in RequestProducts}

BadRemoves == {<<NotADict>>}

\* the (items_to_add, items_to_remove) pairs of the cart specification
CartRequests ==
    {<<a, <<>> >> : a \in SingleAdds \cup DoubleAdds \cup BadAdds}
        \cup {<< <<>>, r>> : r \in Removes \cup BadRemoves}
        \cup {<<a, r>> : a \in {<<Item(p, 1)>> : p \in ProductIds},
                         r \in Removes \cup BadRemoves}
        \cup {<< <<>>, <<>> >>}

----------------------------------------------------------------------------
(* Specification of the cart operations                                    *)

InitDb ==
    /\ products = Catalog
    /\ customers = Customers
    /\ cart_items = <<>>
    /\ orders = {}
    /\ order_items = <<>>
    /\ last = NoCall
    /\ ClientIdle

NextCart ==
    \/ \E c \in Customers, rq \in CartRequests : ModifyCart(c, rq[1], rq[2])
    \/ \E c \in Customers : AccessCartInformation(c)

SpecCart == InitDb /\ [][NextCart]_vars

\* the requests of the order specification: one product added at a time
OrderRequests == {<< <<Item(p, q)>>, <<>> >> : p \in ProductIds, q \in {1, 2}}

\* the key sets of the details dictionaries passed to update_salesforce_crm
DetailsKeys == {{}, {"items"}, {"items", "order_total"}, {"notes"}}

NextOrder ==
    \/ \E c \in Customers, rq \in OrderRequests : ModifyCart(c, rq[1], rq[2])
    \/ \E c \in Customers, oid \in OrderIds : CreateOrder(c, oid)
    \/ \E c \in Customers, d \in DetailsKeys, oid \in OrderIds :
            ToolsUpdateSalesforceCrm(c, d, oid)
    \/ \E c \in Customers, d \in DetailsKeys, oid \in OrderIds :
            OpsUpdateSalesforceCrm(c, d, oid)

SpecOrder == InitDb /\ [][NextOrder]_vars

\* the sport_or_activity arguments of the recommendation specification
Queries ==
    {<<>>, Tennis, Lower(Tennis), <<"T","E","N">>, <<"n","n","i">>,
     <<"G","o","l","f">>, <<"_">>, <<"%">>, <<"T","e","n","_","i","s">>,
     <<"n","%","i">>}

\* the requests of the recommendation specification: single adds and removes
RecRequests ==
    {<< <<Item(p, 1)>>, <<>> >> : p \in ProductIds}
        \cup {<< <<>>, <<Item(p, 1)>> >> : p \in ProductIds}

NextRec ==
    \/ \E c \in Customers, rq \in RecRequests : ModifyCart(c, rq[1], rq[2])
    \/ \E c \in Customers, q \in Queries : GetProductRecommendations(q, c)

SpecRec == InitDb /\ [][NextRec]_vars

----------------------------------------------------------------------------
(* Claims about the cart operations                                        *)

\* what access_cart_information(c) returns in the current state
CartNow(c) == CartInformation(cart_items, products, c)

\* what access_cart_information(c) returns in the next state
CartNext(c) == CartInformation(cart_items', products', c)

\* the quantity a returned cart lists for product p, 0 when it lists none
ListedQuantity(items, p) ==
    IF \E i \in 1..Len(items) : items[i].product_id = p
    THEN items[CHOOSE i \in 1..Len(items) : items[i].product_id = p].quantity
    ELSE 0

\* the entries of a returned cart for products other than p
OtherEntries(items, p) == SelectSeq(items, LAMBDA e : e.product_id # p)

\* the sum of price * quantity over the entries of a returned cart
EntriesTotal(items) ==
    LET f[i \in 0..Len(items)] ==
            IF i = 0 THEN 0 ELSE f[i - 1] + items[i].price * items[i].quantity
    IN  f[Len(items)]

\* the call just made added quantity q of product p for customer c, removing nothing
AddedJust(c, p, q) ==
    /\ last'.op = "modify_cart"
    /\ last'.customer_id = c
    /\ last'.items_to_add = <<Item(p, q)>>
    /\ last'.items_to_remove = <<>>
    /\ last'.result.status = "success"

C1_SubtotalState ==
    /\ \A c \in Customers : CartNow(c).subtotal = EntriesTotal(CartNow(c).cart)
    /\ last.op = "access_cart_information"
            => last.result.subtotal = EntriesTotal(last.result.cart)

C1_AddToEmptyStep ==
    \A c \in Customers, p \in ProductIds, q \in 1..(MaxUnits + 1) :
        (AddedJust(c, p, q) /\ p \in DOMAIN products /\ CartNow(c).cart = <<>>)
            => CartNext(c).subtotal = products[p].price * q

\* C1: in every reachable database state access_cart_information(c) returns a
\* subtotal equal to the sum of price * quantity over the entries it returns, and
\* after modify_cart adds quantity q of an existing product p to an empty cart the
\* subtotal is price(p) * q.
C1_SubtotalIsSum == []C1_SubtotalState /\ [][C1_AddToEmptyStep]_vars

\* a cart of two entries, one of quantity 2, has been read
C1_Witness ==
    /\ last.op = "access_cart_information"
    /\ Len(last.result.cart) = 2
    /\ \E i \in 1..2 : last.result.cart[i].quantity = 2

\* C4: after a successful modify_cart(c, [{product_id: p, quantity: q}], []) with p
\* in products and q >= 1, access_cart_information(c) lists p with its previous
\* quantity (0 if absent) plus q, and every other entry of c's cart is unchanged.
C4_AddAccumulates ==
    [][\A c \in Customers, p \in ProductIds, q \in 1..(MaxUnits + 1) :
          (AddedJust(c, p, q) /\ p \in DOMAIN products)
              => /\ \E i \in 1..Len(CartNext(c).cart) : CartNext(c).cart[i].product_id = p
                 /\ ListedQuantity(CartNext(c).cart, p)
                        = ListedQuantity(CartNow(c).cart, p) + q
                 /\ OtherEntries(CartNext(c).cart, p) = OtherEntries(CartNow(c).cart, p)]_vars

\* a product already in the cart, next to another entry, has just been added again
C4_Witness ==
    \E c \in Customers, p \in ProductIds :
        /\ last.op = "modify_cart"
        /\ last.customer_id = c
        /\ last.items_to_add = <<Item(p, 1)>>
        /\ last.items_to_remove = <<>>
        /\ last.result.status = "success"
        /\ ListedQuantity(CartNow(c).cart, p) = 2
        /\ Len(CartNow(c).cart) = 2

----------------------------------------------------------------------------
(* Claims about orders                                                     *)

\* C2: after create_order(c) returns status 'success', access_cart_information(c)
\* returns an empty cart: no entries, subtotal 0.
C2_CartClearedAfterOrder ==
    (last.op = "create_order" /\ last.result.status = "success")
        => CartNow(last.customer_id) = [cart |-> <<>>, subtotal |-> 0]

\* an order was created while another customer still holds a cart
C2_Witness ==
    /\ last.op = "create_order"
    /\ last.result.status = "success"
    /\ \E c \in Customers \ {last.customer_id} : CartNow(c).cart # <<>>

\* C3: the order a successful create_order(c) creates has status 'Processing', the
\* subtotal of c's cart before the call as total, and one order item per cart entry
\* with its product_id, quantity and price; the returned order_id, items and
\* order_total describe that order.
C3_OrderMatchesCart ==
    [][\A c \in Customers :
          (/\ last'.op = "create_order"
           /\ last'.customer_id = c
           /\ last'.result.status = "success")
              => LET before == CartNow(c)
                     res    == last'.result
                     order  == [id |-> res.order_id, customer_id |-> c,
                                status |-> "Processing", total |-> before.subtotal]
                 IN  /\ order \notin orders
                     /\ orders' = orders \cup {order}
                     /\ Len(order_items') = Len(order_items) + Len(before.cart)
                     /\ SubSeq(order_items', 1, Len(order_items)) = order_items
                     /\ \A i \in 1..Len(before.cart) :
                            order_items'[Len(order_items) + i]
                                = [order_id   |-> res.order_id,
                                   product_id |-> before.cart[i].product_id,
                                   quantity   |-> before.cart[i].quantity,
                                   price      |-> products[before.cart[i].product_id].price]
                     /\ Len(res.items) = Len(before.cart)
                     /\ \A i \in 1..Len(before.cart) :
                            res.items[i] = [product_id |-> before.cart[i].product_id,
                                            quantity   |-> before.cart[i].quantity]
                     /\ res.order_total = before.subtotal]_vars

\* a second order, of two items, has been created
C3_Witness ==
    /\ last.op = "create_order"
    /\ last.result.status = "success"
    /\ Len(last.result.items) = 2
    /\ Cardinality(orders) = 2

\* C5: create_order(c) on a customer whose cart is empty returns status 'error'
\* with message 'Cart is empty', creates no order and no order item, and leaves the
\* whole database unchanged.
C5_EmptyCartRejected ==
    [][\A c \in Customers :
          (/\ last'.op = "create_order"
           /\ last'.customer_id = c
           /\ CartNow(c).cart = <<>>)
              => /\ last'.result = [status |-> "error", message |-> "Cart is empty"]
                 /\ orders' = orders
                 /\ order_items' = order_items
                 /\ cart_items' = cart_items
                 /\ products' = products]_vars

\* create_order was refused for one customer while the database holds an order
\* and another customer's cart
C5_Witness ==
    /\ last.op = "create_order"
    /\ last.result.status = "error"
    /\ orders # {}
    /\ cart_items # <<>>

\* C6: db_tools.update_salesforce_crm(c, details) creates an order from c's cart
\* exactly when details has the key 'items' and c's cart is non-empty; without the
\* key it creates no order and leaves c's cart unchanged.
C6_OrderIffItems ==
    [][\A c \in Customers :
          (/\ last'.op = "db_tools.update_salesforce_crm"
           /\ last'.customer_id = c)
              => LET before  == CartNow(c)
                     created == orders' \ orders
                 IN  /\ (created # {})
                            <=> ("items" \in last'.details /\ before.cart # <<>>)
                     /\ created # {}
                            => /\ Cardinality(created) = 1
                               /\ \A o \in created :
                                     /\ o.customer_id = c
                                     /\ o.total = before.subtotal
                                     /\ Len(order_items') - Len(order_items)
                                            = Len(before.cart)
                     /\ "items" \notin last'.details
                            => /\ orders' = orders
                               /\ order_items' = order_items
                               /\ CartNext(c) = before]_vars

\* the tool created an order from a cart, and was also called without 'items' on a
\* non-empty cart (the second case is the state reached here)
C6_Witness ==
    /\ last.op = "db_tools.update_salesforce_crm"
    /\ "items" \notin last.details
    /\ CartNow(last.customer_id).cart # <<>>
    /\ orders # {}

----------------------------------------------------------------------------
(* Claims about product recommendations                                    *)

\* the product ids of the last recommendations returned
Recommended == {r.product_id : r \in last.result.recommendations}

\* the product ids access_cart_information(c) lists
InCart(c) == {CartNow(c).cart[i].product_id : i \in 1..Len(CartNow(c).cart)}

\* the products whose sport contains s, case-insensitively
SportContains(s) ==
    {p \in DOMAIN products : Contains(Lower(products[p].sport), Lower(s))}

\* C7: get_product_recommendations(s, c) returns exactly the products whose sport
\* contains s (case-insensitively) and that are not in c's cart at the time of the
\* call.
C7_ExactlySportMatches ==
    last.op = "get_product_recommendations"
        => Recommended = SportContains(last.sport_or_activity) \ InCart(last.customer_id)

\* what the code does keep of C7: nothing in the cart is recommended, everything
\* recommended matches the LIKE pattern, and for an argument without % and _ the
\* recommendations are exactly the substring matches outside the cart
C7_HoldsWithoutWildcards ==
    last.op = "get_product_recommendations"
        => /\ Recommended \cap InCart(last.customer_id) = {}
           /\ SportContains(last.sport_or_activity) \ InCart(last.customer_id)
                    \subseteq Recommended
           /\ (\A i \in 1..Len(last.sport_or_activity) :
                    last.sport_or_activity[i] \notin {"%", "_"})
                => Recommended
                        = SportContains(last.sport_or_activity) \ InCart(last.customer_id)

----------------------------------------------------------------------------
(* The SSE response parser of the Streamlit client                         *)
(*                                                                         *)
(* A response is the sequence of its "data:" chunks.  A chunk is the JSON   *)
(* value it holds, reduced to the fields the parser reads.  A tool result   *)
(* is a value of one of the forms the parser tells apart:                   *)
(*   absent      the key is missing                                         *)
(*   empty       a falsy value (None, "", {})                               *)
(*   object      a non-empty JSON object                                    *)
(*   json_text   a string that holds the JSON text of an object             *)
(*   plain_text  a string that is not JSON                                  *)
(* and data names the payload.  A name of "" stands for a missing name.     *)

\* both files define parse_sse_response
Parsers == {"streamlit_components/utils.py", "streamlit_app.py"}

Absent == [form |-> "absent", data |-> "none"]

Empty == [form |-> "empty", data |-> "none"]

Obj(data) == [form |-> "object", data |-> data]

JsonText(data) == [form |-> "json_text", data |-> data]

PlainText(data) == [form |-> "plain_text", data |-> data]

\* Python truth of a value
Truthy(v) == v.form \in {"object", "json_text", "plain_text"}

\* json.loads(v) for a string that holds JSON; a string that does not is kept
\* by the except branches and an object is used as it is
Parsed(v) == IF v.form = "json_text" THEN Obj(v.data) ELSE v

\* "cart" in str(v).lower()
MentionsCart(v) == v.data \in {"cart", "empty cart"}

NoText == [present |-> FALSE, chars |-> <<>>]

Text(chars) == [present |-> TRUE, chars |-> chars]

\* str.strip()
RECURSIVE Strip(_)
Strip(s) ==
    IF s = <<>> THEN s
    ELSE IF Head(s) = " " THEN Strip(Tail(s))
    ELSE IF s[Len(s)] = " " THEN Strip(SubSeq(s, 1, Len(s) - 1))
    ELSE s

\* the mutated phrase list: "order id" is not in it
ConfirmationPhrases_NoOrderId ==
    {<<"o","r","d","e","r"," ","c","o","n","f","i","r","m","e","d">>,
     <<"o","r","d","e","r"," ","h","a","s"," ","b","e","e","n"," ","p","l","a","c","e","d">>,
     <<"o","r","d","e","r"," ","i","s"," ","c","o","n","f","i","r","m","e","d">>,
     <<"s","u","c","c","e","s","s","f","u","l","l","y"," ","p","l","a","c","e","d"," ","y","o","u","r"," ","o","r","d","e","r">>,
     <<"o","r","d","e","r"," ","h","a","s"," ","b","e","e","n"," ","s","u","b","m","i","t","t","e","d">>,
     <<"o","r","d","e","r"," ","n","u","m","b","e","r">>,
     <<"o","r","d","e","r"," ","p","r","o","c","e","s","s","e","d">>}

\* the phrases of the order confirmation check
ConfirmationPhrases ==
    {<<"o","r","d","e","r"," ","c","o","n","f","i","r","m","e","d">>,
     <<"o","r","d","e","r"," ","h","a","s"," ","b","e","e","n"," ","p","l","a","c","e","d">>,
     <<"o","r","d","e","r"," ","i","s"," ","c","o","n","f","i","r","m","e","d">>,
     <<"s","u","c","c","e","s","s","f","u","l","l","y"," ","p","l","a","c","e","d"," ","y","o","u","r"," ","o","r","d","e","r">>,
     <<"o","r","d","e","r"," ","h","a","s"," ","b","e","e","n"," ","s","u","b","m","i","t","t","e","d">>,
     <<"o","r","d","e","r"," ","i","d">>,
     <<"o","r","d","e","r"," ","n","u","m","b","e","r">>,
     <<"o","r","d","e","r"," ","p","r","o","c","e","s","s","e","d">>}

\* any(phrase in reply_lower for phrase in [...])
TextConfirmsOrder(assistant_reply) ==
    \E phrase \in ConfirmationPhrases : Contains(Lower(assistant_reply), phrase)

\* tool_outputs is the set of its items; tool_outputs[k] = v
Put(tool_outputs, k, v) ==
    {e \in tool_outputs : e.name # k} \cup {[name |-> k, value |-> v]}

Keys(tool_outputs) == {e.name : e \in tool_outputs}

\* the locals of parse_sse_response while it loops over the messages
ParseStart ==
    [raised |-> FALSE, assistant_reply |-> NoText, tool_outputs |-> {},
     order_confirmed |-> FALSE, tool_name |-> [bound |-> FALSE, name |-> ""]]

\* an exception that no except clause of the function catches
Raise(st) == [st EXCEPT !.raised = TRUE]

SetToolName(st, name) == [st EXCEPT !.tool_name = [bound |-> TRUE, name |-> name]]

Store(st, k, v) == [st EXCEPT !.tool_outputs = Put(@, k, v)]

\* "Extract text content": the text of parts[0]
ExtractText(st, chunk) ==
    IF st.raised THEN st
    ELSE IF chunk.content.kind = "dict" /\ chunk.content.has_parts
    THEN IF chunk.content.parts = <<>>
         THEN Raise(st)                     \* [][0]: IndexError
         ELSE LET text_part == chunk.content.parts[1].text
              IN  IF text_part.present /\ text_part.chars # <<>>
                  THEN LET assistant_reply == Strip(text_part.chars)
                       IN  [st EXCEPT
                              !.assistant_reply = Text(assistant_reply),
                              !.order_confirmed =
                                  @ \/ TextConfirmsOrder(assistant_reply)]
                  ELSE st
    ELSE st

\* the tool_code/tool_result pattern of the actions field
ProbeToolCode(st, actions) ==
    IF st.raised THEN st
    ELSE IF actions.tool_code.present /\ Truthy(actions.tool_result)
    THEN IF actions.tool_code.name # ""
         THEN LET st1 == SetToolName(st, actions.tool_code.name)
              IN  IF actions.tool_result.form = "object"
                  THEN Raise(st1)           \* json.loads(dict): TypeError
                  ELSE Store(st1, actions.tool_code.name,
                             Parsed(actions.tool_result))
         ELSE st
    ELSE st

\* the function_call pattern of the actions field; only streamlit_app.py
\* looks for a function_result, and only for access_cart_information
ProbeFunctionCall(st, actions, variant) ==
    IF st.raised THEN st
    ELSE IF actions.function_call.present
    THEN LET tool_name == actions.function_call.name
             st1 == SetToolName(st, tool_name)
             function_result ==
                 IF actions.function_result.form = "absent"
                 THEN JsonText("empty")     \* the default "{}"
                 ELSE actions.function_result
         IN  IF /\ tool_name # ""
                /\ actions.function_call.arguments_valid
                /\ variant = "streamlit_app.py"
                /\ tool_name = "access_cart_information"
                /\ Truthy(function_result)
             THEN Store(st1, tool_name, Parsed(function_result))
             ELSE st1
    ELSE st

\* "Check standard 'actions' field"
ProbeActions(st, chunk, variant) ==
    IF st.raised THEN st
    ELSE IF chunk.actions.kind = "empty_list"
    THEN Raise(st)                          \* actions[0]: IndexError
    ELSE IF chunk.actions.kind \in {"dict", "list"}
    THEN ProbeFunctionCall(ProbeToolCode(st, chunk.actions),
                           chunk.actions, variant)
    ELSE st

\* the response data of a functionResponse: response, result or content
ResponseData(function_response) ==
    IF function_response.key \in {"response", "result", "content"}
    THEN function_response.value
    ELSE Absent

\* one iteration of "for part in parts"
ProbePart(st, part) ==
    IF st.raised THEN st
    ELSE LET st1 == IF part.functionCall.present
                    THEN SetToolName(st, part.functionCall.name)
                    ELSE st
             response_data == ResponseData(part.functionResponse)
             parsed_response == Parsed(response_data)
         IN  IF part.functionResponse.present /\ Truthy(response_data)
             THEN IF ~st1.tool_name.bound
                  THEN Raise(st1)           \* UnboundLocalError
                  ELSE IF st1.tool_name.name # ""
                  THEN Store(st1, st1.tool_name.name, parsed_response)
                  ELSE IF MentionsCart(parsed_response)
                  THEN Store(st1, "access_cart_information", parsed_response)
                  ELSE st1
             ELSE st1

RECURSIVE ProbeParts(_, _)
ProbeParts(st, parts) ==
    IF parts = <<>> THEN st
    ELSE ProbeParts(ProbePart(st, Head(parts)), Tail(parts))

\* "Check for new function call format in content.parts"
ProbeContent(st, chunk) ==
    IF st.raised THEN st
    ELSE IF chunk.content.kind = "dict"
    THEN ProbeParts(st, IF chunk.content.has_parts
                        THEN chunk.content.parts ELSE <<>>)
    ELSE st

\* one iteration of "for tool_call in tool_calls"
ProbeToolCall(st, tool_call) ==
    LET st1 == SetToolName(st, tool_call.name)
    IN  IF tool_call.name # "" /\ Truthy(tool_call.response)
        THEN Store(st1, tool_call.name, Parsed(tool_call.response))
        ELSE st1

RECURSIVE ProbeToolCalls(_, _)
ProbeToolCalls(st, tool_calls) ==
    IF st.raised \/ tool_calls = <<>> THEN st
    ELSE ProbeToolCalls(ProbeToolCall(st, Head(tool_calls)), Tail(tool_calls))

\* the body of "for json_string in messages"
ParseMessage(st, chunk, variant) ==
    IF st.raised THEN st
    ELSE IF chunk.json = "invalid" THEN st  \* JSONDecodeError: continue
    ELSE IF chunk.json = "other" THEN Raise(st)   \* not a dict
    ELSE ProbeToolCalls(
             ProbeContent(
                 ProbeActions(ExtractText(st, chunk), chunk, variant),
                 chunk),
             chunk.tool_calls)

RECURSIVE ParseMessages(_, _, _)
ParseMessages(st, msgs, variant) ==
    IF msgs = <<>> THEN st
    ELSE ParseMessages(ParseMessage(st, Head(msgs), variant),
                       Tail(msgs), variant)

\* whether the text of the chunk holds "data:", the separator the parser
\* splits the response text on
HasDataMarker(chunk) ==
    /\ chunk.json = "object"
    /\ \E i \in 1..Len(chunk.content.parts) :
           Contains(chunk.content.parts[i].text.chars, <<"d","a","t","a",":">>)

\* a chunk that json.loads rejects
NotJson ==
    [json |-> "invalid",
     content |-> [kind |-> "absent", has_parts |-> FALSE, parts |-> <<>>],
     actions |-> [kind |-> "absent",
                  tool_code |-> [present |-> FALSE, name |-> ""],
                  tool_result |-> Absent,
                  function_call |-> [present |-> FALSE, name |-> "",
                                     arguments_valid |-> TRUE],
                  function_result |-> Absent],
     tool_calls |-> <<>>]

\* raw_data.split("data:"): a chunk with the separator in its text falls
\* into two pieces, neither of them JSON
RECURSIVE Messages(_)
Messages(response_text) ==
    IF response_text = <<>> THEN <<>>
    ELSE (IF HasDataMarker(Head(response_text))
          THEN <<NotJson, NotJson>>
          ELSE <<Head(response_text)>>) \o Messages(Tail(response_text))

\* parse_sse_response(response_text): what it returns, or that it raises
ParseSseResponseResult(response_text, variant) ==
    LET st == ParseMessages(ParseStart, Messages(response_text), variant)
    IN  IF st.raised
        THEN [state |-> "raised", assistant_reply |-> NoText,
              tool_outputs |-> {}, order_confirmed |-> FALSE]
        ELSE [state |-> "returned",
              assistant_reply |-> st.assistant_reply,
              tool_outputs |-> st.tool_outputs,
              order_confirmed |->
                  \/ st.order_confirmed
                  \/ "update_salesforce_crm" \in Keys(st.tool_outputs)]

\* st.session_state.order_details after parse_sse_response
OrderDetailsAfter(result, details) ==
    IF /\ result.state = "returned"
       /\ "update_salesforce_crm" \in Keys(result.tool_outputs)
       /\ ~details.present
    THEN [present |-> TRUE,
          value |-> (CHOOSE e \in result.tool_outputs :
                         e.name = "update_salesforce_crm").value]
    ELSE details

\* parse_sse_response(response_text)
ParseSseResponse ==
    /\ parsed.state = "pending"
    /\ LET result == ParseSseResponseResult(response, parser)
       IN  /\ parsed' = result
           /\ order_details' = OrderDetailsAfter(result, order_details)
    /\ UNCHANGED <<parser, response, dbVars, last, sessionVars>>

----------------------------------------------------------------------------
(* The responses the parser is run on                                      *)

NoContent == [kind |-> "absent", has_parts |-> FALSE, parts |-> <<>>]

\* "content": a value that is not a dict
OtherContent == [kind |-> "other", has_parts |-> FALSE, parts |-> <<>>]

\* "content": {} without "parts"
ContentWithoutParts == [kind |-> "dict", has_parts |-> FALSE, parts |-> <<>>]

Content(parts) == [kind |-> "dict", has_parts |-> TRUE, parts |-> parts]

NoFunctionCall == [present |-> FALSE, name |-> ""]

NoFunctionResponse == [present |-> FALSE, key |-> "response", value |-> Absent]

TextPart(chars) ==
    [text |-> Text(chars), functionCall |-> NoFunctionCall,
     functionResponse |-> NoFunctionResponse]

FunctionCallPart(name) ==
    [text |-> NoText, functionCall |-> [present |-> TRUE, name |-> name],
     functionResponse |-> NoFunctionResponse]

FunctionResponsePart(key, value) ==
    [text |-> NoText, functionCall |-> NoFunctionCall,
     functionResponse |-> [present |-> TRUE, key |-> key, value |-> value]]

NoActions == NotJson.actions

ToolCodeActions(kind, name, tool_result) ==
    [NoActions EXCEPT !.kind = kind,
                      !.tool_code = [present |-> TRUE, name |-> name],
                      !.tool_result = tool_result]

FunctionCallActions(name, arguments_valid, function_result) ==
    [NoActions EXCEPT !.kind = "dict",
                      !.function_call = [present |-> TRUE, name |-> name,
                                         arguments_valid |-> arguments_valid],
                      !.function_result = function_result]

ToolCall(name, tool_response) == [name |-> name, response |-> tool_response]

JsonObject(content, actions, tool_calls) ==
    [json |-> "object", content |-> content, actions |-> actions,
     tool_calls |-> tool_calls]

\* valid JSON that is not an object
NotAnObject == [NotJson EXCEPT !.json = "other"]

TextCart == <<" ","C","a","r","t"," ","o","k"," ">>

TextOrderId == <<"Y","o","u","r"," ","O","r","d","e","r"," ","I","D"," ","i","s"," ","7">>

TextBlank == <<" ">>

TextData == <<"O","r","d","e","r"," ","I","D"," ","d","a","t","a",":"," ","7">>

\* chunks that carry text only, or nothing the parser reads
TextChunks ==
    {NotJson, NotAnObject,
     JsonObject(Content(<<TextPart(TextCart)>>), NoActions, <<>>),
     JsonObject(Content(<<TextPart(TextOrderId)>>), NoActions, <<>>),
     JsonObject(Content(<<TextPart(TextBlank)>>), NoActions, <<>>),
     JsonObject(Content(<<TextPart(TextData)>>), NoActions, <<>>),
     JsonObject(Content(<<>>), NoActions, <<>>),
     JsonObject(ContentWithoutParts, NoActions, <<>>),
     JsonObject(OtherContent, NoActions, <<>>)}

\* chunks with functionCall and functionResponse parts
PartChunks ==
    {JsonObject(Content(<<FunctionCallPart(n)>>), NoActions, <<>>) :
        n \in {"access_cart_information", "update_salesforce_crm", ""}}
    \cup
    {JsonObject(Content(<<FunctionResponsePart("response", Obj("cart"))>>),
                NoActions, <<>>),
     JsonObject(Content(<<FunctionResponsePart("result", JsonText("order"))>>),
                NoActions, <<>>),
     JsonObject(Content(<<FunctionResponsePart("content", PlainText("status"))>>),
                NoActions, <<>>),
     JsonObject(Content(<<FunctionResponsePart("output", Obj("cart"))>>),
                NoActions, <<>>),
     JsonObject(Content(<<TextPart(TextCart), FunctionCallPart("modify_cart"),
                          FunctionResponsePart("response", Obj("status"))>>),
                NoActions, <<>>),
     JsonObject(Content(<<FunctionCallPart("access_cart_information"),
                          TextPart(TextOrderId)>>), NoActions, <<>>)}

\* chunks with an actions field
ActionChunks ==
    {JsonObject(NoContent, a, <<>>) :
        a \in {ToolCodeActions("dict", "access_cart_information", JsonText("cart")),
               ToolCodeActions("list", "update_salesforce_crm", PlainText("order")),
               ToolCodeActions("dict", "modify_cart", Obj("status")),
               ToolCodeActions("dict", "", JsonText("cart")),
               [NoActions EXCEPT !.kind = "empty_list"],
               FunctionCallActions("access_cart_information", TRUE, JsonText("cart")),
               FunctionCallActions("modify_cart", TRUE, Obj("status")),
               FunctionCallActions("access_cart_information", TRUE, Absent),
               FunctionCallActions("access_cart_information", FALSE, Obj("cart"))}}

\* chunks with a tool_calls field
ToolCallChunks ==
    {JsonObject(NoContent, NoActions,
                <<ToolCall("update_salesforce_crm", Obj("order"))>>),
     JsonObject(NoContent, NoActions,
                <<ToolCall("access_cart_information", JsonText("cart")),
                  ToolCall("modify_cart", Empty)>>)}

Chunks == TextChunks \cup PartChunks \cup ActionChunks \cup ToolCallChunks

\* the most chunks a response has
MaxChunks == 2

Responses == UNION {[1..n -> Chunks] : n \in 0..MaxChunks}

\* order details a parse of an earlier response has stored
EarlierDetails == [present |-> TRUE, value |-> Obj("earlier order")]

InitParse ==
    /\ products = Catalog
    /\ customers = Customers
    /\ cart_items = <<>>
    /\ orders = {}
    /\ order_items = <<>>
    /\ last = NoCall
    /\ parser \in Parsers
    /\ response \in Responses
    /\ parsed = NotParsed
    /\ order_details \in {NoDetails, EarlierDetails}
    /\ SessionStart

NextParse == ParseSseResponse

SpecParse == InitParse /\ [][NextParse]_vars

----------------------------------------------------------------------------
(* The Streamlit session                                                   *)
(*                                                                         *)
(* Streamlit runs the script of a session in one thread, from the top, on   *)
(* every interaction with a widget; a run that is under way is stopped at   *)
(* its next element command by an exception that derives from               *)
(* BaseException, and the new run starts after it has unwound.  pc is       *)
(* "idle" while the script is outside process_agent_interaction, and names  *)
(* the step process_agent_interaction is about to take otherwise:           *)
(*   session   ensure_agent_session                                         *)
(*   run       call_agent_api and parse_sse_response                        *)
(*   parsed    the handling of what was parsed, to the end of the try       *)
(*   finalize  the code after the try statement                             *)
(* The cart of the session is "items" or "empty"; the inventory display,    *)
(* the debug stores (last_raw_response, tool_outputs) and cart_subtotal     *)
(* are left out.                                                           *)

\* prompts typed into st.chat_input
Prompts == {"add two tennis balls to my cart", "SYSTEM_FETCH_CART"}

\* the message the Confirm Order button sends
OrderMessage ==
    "I want to finalize and submit my order now ... Please process this order using the update_salesforce_crm tool and confirm."

ErrorText == "Sorry, an error occurred while processing your request."

FallbackText == "I processed your request, but didn't generate a text response."

\* user_prompt.startswith("SYSTEM_")
IsSystemMessage(user_prompt) == user_prompt = "SYSTEM_FETCH_CART"

\* is_cart_related_query(prompt): a keyword occurs in the lower-cased prompt
IsCartRelatedQuery(prompt) ==
    prompt \in {"add two tennis balls to my cart", "SYSTEM_FETCH_CART", OrderMessage}

\* the text of a reply as the string the history holds
AsString(chars) ==
    IF chars = <<>> THEN ""
    ELSE IF chars = Strip(TextCart) THEN "Cart ok"
    ELSE IF chars = TextOrderId THEN "Your Order ID is 7"
    ELSE "..."

\* tool_outputs[k]
Output(tool_outputs, k) == (CHOOSE e \in tool_outputs : e.name = k).value

\* update_cart_display(cart_data): a dict with a "cart" key sets the cart,
\* every other value the parser stores leaves the cart as it is
UpdateCartDisplay(cart, cart_data) ==
    IF cart_data.form = "object" /\ cart_data.data = "cart" THEN "items"
    ELSE IF cart_data.form = "object" /\ cart_data.data = "empty cart" THEN "empty"
    ELSE cart

\* the flag kept as it is: the mutation of the finally clause
Released_Kept(flag) == flag

\* finally: st.session_state.processing_message = False
Released(flag) == FALSE

\* the responses of the agent the session receives
UiResponses ==
    {<<JsonObject(Content(<<TextPart(TextCart)>>), NoActions, <<>>)>>,
     <<JsonObject(Content(<<TextPart(TextOrderId)>>), NoActions, <<>>)>>,
     <<JsonObject(Content(<<TextPart(TextBlank)>>), NoActions, <<>>)>>,
     <<JsonObject(NoContent, NoActions,
                  <<ToolCall("update_salesforce_crm", Obj("order"))>>)>>,
     <<JsonObject(Content(<<FunctionCallPart("access_cart_information")>>),
                  NoActions, <<>>),
       JsonObject(Content(<<FunctionResponsePart("response", Obj("cart"))>>),
                  NoActions, <<>>)>>,
     <<NotAnObject>>}

\* what the call of explicitly_fetch_cart gets: an error or a response
FetchOutcomes ==
    {[ok |-> FALSE, response_text |-> <<>>],
     [ok |-> TRUE, response_text |->
         <<JsonObject(NoContent, NoActions,
                      <<ToolCall("access_cart_information", Obj("cart"))>>)>>],
     [ok |-> TRUE, response_text |->
         <<JsonObject(NoContent, NoActions,
                      <<ToolCall("access_cart_information", Obj("empty cart"))>>)>>],
     [ok |-> TRUE, response_text |-> <<NotAnObject>>]}

\* explicitly_fetch_cart: the cart and the order details of the session
\* after it; every exception is caught inside it
ExplicitlyFetchCart(fetch, cart, details) ==
    LET result == ParseSseResponseResult(fetch.response_text,
                                         "streamlit_components/utils.py")
    IN  IF ~fetch.ok \/ result.state = "raised"
        THEN [cart |-> cart, details |-> details]
        ELSE [cart |-> IF "access_cart_information" \in Keys(result.tool_outputs)
                       THEN UpdateCartDisplay(cart,
                                Output(result.tool_outputs, "access_cart_information"))
                       ELSE cart,
              details |-> OrderDetailsAfter(result, details)]

\* the run POSTs made so far with message i of the history as the prompt
PostsOf(posts, i) == IF posts.message = i THEN posts.posts ELSE 0

\* call_agent_api(run_url, run_payload, ...) with message n as the prompt
Posted(posts, n) == [message |-> n, posts |-> PostsOf(posts, n) + 1]

\* the most run POSTs followed for one message
MaxPosts == 2

\* the most messages the history holds
MaxMessages == 4

\* process_agent_interaction up to the try statement
ProcessAgentInteraction ==
    /\ pc = "idle"
    /\ messages[Len(messages)].role = "user"
    /\ ~processing_message
    /\ PostsOf(run_posts, Len(messages)) < MaxPosts
    /\ processing_message' = TRUE
    /\ assistant_response_text' = NoResponseText
    /\ pc' = "session"
    /\ UNCHANGED <<session_request, run_posts, dbVars, last, parseVars, order_details, messages,
                   session_initialized, order_confirmed, order_submitted,
                   order_submission_state, session_cart>>

\* the record of the session-creation requests after ensure_agent_session:
\* a request is issued or not, and an issued one is answered or fails
SessionRequested(request, issued, created) ==
    IF ~issued THEN request
    ELSE IF request \in {"created", "repeated"} THEN "repeated"
    ELSE IF created THEN "created"
    ELSE "failed"

\* ensure_agent_session without the test of session_initialized
EnsureAgentSession_Always(created) ==
    /\ pc = "session"
    /\ session_initialized' = created
    /\ session_request' = SessionRequested(session_request, TRUE, created)
    /\ pc' = "run"
    /\ UNCHANGED <<run_posts, dbVars, last, parseVars, order_details, messages,
                   processing_message, order_confirmed, order_submitted,
                   order_submission_state, session_cart,
                   assistant_response_text>>

\* ensure_agent_session: the session is created unless it has been; a
\* failure is caught and leaves session_initialized False
EnsureAgentSession(created) ==
    /\ pc = "session"
    /\ session_initialized' = (session_initialized \/ created)
    /\ session_request' = SessionRequested(session_request,
                                           ~session_initialized, created)
    /\ pc' = "run"
    /\ UNCHANGED <<run_posts, dbVars, last, parseVars, order_details, messages,
                   processing_message, order_confirmed, order_submitted,
                   order_submission_state, session_cart,
                   assistant_response_text>>

\* call_agent_api raises: the except clause and the finally clause
AgentCallFails ==
    /\ pc = "run"
    /\ run_posts' = Posted(run_posts, Len(messages))
    /\ assistant_response_text' = [present |-> TRUE, text |-> ErrorText]
    /\ processing_message' = Released(processing_message)
    /\ pc' = "finalize"
    /\ UNCHANGED <<session_request, dbVars, last, parseVars, order_details, messages,
                   session_initialized, order_confirmed, order_submitted,
                   order_submission_state, session_cart>>

\* call_agent_api returns a response and parse_sse_response runs on it; when
\* it raises, the except clause and the finally clause run
AgentResponds(response_text) ==
    /\ pc = "run"
    /\ run_posts' = Posted(run_posts, Len(messages))
    /\ LET result == ParseSseResponseResult(response_text, parser)
       IN  /\ response' = response_text
           /\ parsed' = result
           /\ order_details' = OrderDetailsAfter(result, order_details)
           /\ IF result.state = "raised"
              THEN /\ assistant_response_text' =
                          [present |-> TRUE, text |-> ErrorText]
                   /\ processing_message' = Released(processing_message)
                   /\ pc' = "finalize"
              ELSE /\ pc' = "parsed"
                   /\ UNCHANGED <<assistant_response_text, processing_message>>
    /\ UNCHANGED <<session_request, dbVars, last, parser, messages, session_initialized,
                   order_confirmed, order_submitted, order_submission_state,
                   session_cart>>

\* the rest of the try statement: order confirmation, cart refresh, the
\* text to show, and the finally clause
HandleAgentResponse(fetch) ==
    /\ pc = "parsed"
    /\ LET user_prompt == messages[Len(messages)].content
           is_system_message == IsSystemMessage(user_prompt)
           cart_needs_refresh ==
               IsCartRelatedQuery(user_prompt) \/ is_system_message
           submitted == parsed.order_confirmed
                            /\ order_submission_state = "confirmed"
           has_cart == "access_cart_information" \in Keys(parsed.tool_outputs)
           fetches == ~has_cart /\ cart_needs_refresh /\ ~is_system_message
           fetched == ExplicitlyFetchCart(fetch, session_cart, order_details)
       IN  /\ order_confirmed' = (order_confirmed \/ parsed.order_confirmed)
           /\ order_submitted' = (order_submitted \/ submitted)
           /\ order_submission_state' =
                  IF submitted THEN "None" ELSE order_submission_state
           /\ session_cart' =
                  IF has_cart
                  THEN UpdateCartDisplay(session_cart,
                           Output(parsed.tool_outputs, "access_cart_information"))
                  ELSE IF fetches THEN fetched.cart ELSE session_cart
           /\ order_details' = IF fetches THEN fetched.details ELSE order_details
           /\ assistant_response_text' =
                  IF parsed.assistant_reply.present
                  THEN [present |-> TRUE,
                        text |-> AsString(parsed.assistant_reply.chars)]
                  ELSE IF is_system_message THEN NoResponseText
                  ELSE [present |-> TRUE, text |-> FallbackText]
    /\ processing_message' = Released(processing_message)
    /\ pc' = "finalize"
    /\ UNCHANGED <<session_request, run_posts, dbVars, last, parseVars, messages, session_initialized>>

\* whether the code after the try statement appends the response
ShowsResponse ==
    /\ assistant_response_text.present
    /\ assistant_response_text.text # ""
    /\ ~IsSystemMessage(messages[Len(messages)].content)

\* "Finalize Interaction": the response is added to the history
FinalizeInteraction ==
    /\ pc = "finalize"
    /\ messages' = IF ShowsResponse
                   THEN Append(messages,
                               [role |-> "assistant",
                                content |-> assistant_response_text.text])
                   ELSE messages
    /\ assistant_response_text' = NoResponseText
    /\ pc' = "idle"
    /\ UNCHANGED <<session_request, run_posts, dbVars, last, parseVars, order_details, processing_message,
                   session_initialized, order_confirmed, order_submitted,
                   order_submission_state, session_cart>>

\* the run is stopped at an element command inside process_agent_interaction:
\* no except clause catches the exception, the finally clause runs
ScriptInterrupted ==
    /\ \/ pc \in {"session", "run"}
       \/ pc = "parsed" /\ parsed.tool_outputs # {}
       \/ pc = "finalize" /\ ShowsResponse
    /\ processing_message' =
           IF pc = "finalize" THEN processing_message
           ELSE Released(processing_message)
    /\ assistant_response_text' = NoResponseText
    /\ pc' = "idle"
    /\ UNCHANGED <<session_request, run_posts, dbVars, last, parseVars, order_details, messages,
                   session_initialized, order_confirmed, order_submitted,
                   order_submission_state, session_cart>>

\* handle_user_input with a prompt in the chat input
HandleUserInput(prompt) ==
    /\ pc = "idle"
    /\ Len(messages) + 1 < MaxMessages
    /\ messages' = IF ~processing_message
                   THEN Append(messages, [role |-> "user", content |-> prompt])
                   ELSE messages
    /\ UNCHANGED <<session_request, run_posts, dbVars, last, parseVars, order_details, processing_message,
                   session_initialized, order_confirmed, order_submitted,
                   order_submission_state, session_cart, pc,
                   assistant_response_text>>

\* Submit Order that does not look at the cart
SubmitOrder_AnyCart ==
    /\ pc = "idle"
    /\ ~order_confirmed
    /\ order_submission_state # "confirming"
    /\ order_submission_state' = "confirming"
    /\ UNCHANGED <<session_request, run_posts, dbVars, last, parseVars, order_details, messages,
                   processing_message, session_initialized, order_confirmed,
                   order_submitted, session_cart, pc, assistant_response_text>>

\* the Submit Order button, shown by display_standard_buttons; with an
\* empty cart it only warns
SubmitOrder ==
    /\ pc = "idle"
    /\ ~order_confirmed
    /\ order_submission_state # "confirming"
    /\ session_cart = "items"
    /\ order_submission_state' = "confirming"
    /\ UNCHANGED <<session_request, run_posts, dbVars, last, parseVars, order_details, messages,
                   processing_message, session_initialized, order_confirmed,
                   order_submitted, session_cart, pc, assistant_response_text>>

\* the Cancel button of the confirmation dialog
CancelOrder ==
    /\ pc = "idle"
    /\ ~order_confirmed
    /\ order_submission_state = "confirming"
    /\ order_submission_state' = "None"
    /\ UNCHANGED <<session_request, run_posts, dbVars, last, parseVars, order_details, messages,
                   processing_message, session_initialized, order_confirmed,
                   order_submitted, session_cart, pc, assistant_response_text>>

\* the Confirm Order button of the confirmation dialog
ConfirmOrder ==
    /\ pc = "idle"
    /\ ~order_confirmed
    /\ order_submission_state = "confirming"
    /\ Len(messages) + 1 < MaxMessages
    /\ order_submission_state' = "confirmed"
    /\ messages' = Append(messages, [role |-> "user", content |-> OrderMessage])
    /\ UNCHANGED <<session_request, run_posts, dbVars, last, parseVars, order_details, processing_message,
                   session_initialized, order_confirmed, order_submitted,
                   session_cart, pc, assistant_response_text>>

\* the Start New Order button of display_order_confirmation
StartNewOrder ==
    /\ pc = "idle"
    /\ order_confirmed
    /\ order_confirmed' = FALSE
    /\ order_details' = NoDetails
    /\ session_cart' = "empty"
    /\ UNCHANGED <<session_request, run_posts, dbVars, last, parseVars, messages, processing_message,
                   session_initialized, order_submitted,
                   order_submission_state, pc, assistant_response_text>>

InitUI == InitDb

NextUI ==
    \/ ProcessAgentInteraction
    \/ \E created \in BOOLEAN : EnsureAgentSession(created)
    \/ AgentCallFails
    \/ \E r \in UiResponses : AgentResponds(r)
    \/ \E fetch \in FetchOutcomes : HandleAgentResponse(fetch)
    \/ FinalizeInteraction
    \/ ScriptInterrupted
    \/ \E prompt \in Prompts : HandleUserInput(prompt)
    \/ SubmitOrder
    \/ CancelOrder
    \/ ConfirmOrder
    \/ StartNewOrder

SpecUI == InitUI /\ [][NextUI]_vars

----------------------------------------------------------------------------
(* Claims about the parser                                                 *)

\* the parts of all chunks of the response, in order
RECURSIVE AllParts(_)
AllParts(chunks) ==
    IF chunks = <<>> THEN <<>>
    ELSE Head(chunks).content.parts \o AllParts(Tail(chunks))

\* the tool calls of a chunk in the shapes of the actions and tool_calls
\* fields, each with the result that accompanies it
ActionCalls(chunk) ==
    (IF chunk.actions.tool_code.present
     THEN <<[name |-> chunk.actions.tool_code.name,
             result |-> chunk.actions.tool_result]>>
     ELSE <<>>)
    \o (IF chunk.actions.function_call.present
        THEN <<[name |-> chunk.actions.function_call.name,
                result |-> chunk.actions.function_result]>>
        ELSE <<>>)
    \o [i \in 1..Len(chunk.tool_calls) |->
            [name |-> chunk.tool_calls[i].name,
             result |-> chunk.tool_calls[i].response]]

RECURSIVE AllActionCalls(_)
AllActionCalls(chunks) ==
    IF chunks = <<>> THEN <<>>
    ELSE ActionCalls(Head(chunks)) \o AllActionCalls(Tail(chunks))

NoToolCall == [name |-> "", result |-> Absent]

\* the tool call of a response that holds exactly one, in one shape, and
\* its result; NoToolCall for every other response
OnlyToolCall(chunks) ==
    LET calls == AllActionCalls(chunks)
        parts == AllParts(chunks)
        fcalls == {i \in 1..Len(parts) : parts[i].functionCall.present}
        fresps == {i \in 1..Len(parts) : parts[i].functionResponse.present}
    IN  IF Len(calls) = 1 /\ fcalls = {} /\ fresps = {}
        THEN calls[1]
        ELSE IF /\ Len(calls) = 0
                /\ Cardinality(fcalls) = 1
                /\ Cardinality(fresps) = 1
                /\ \A a \in fcalls, b \in fresps :
                       /\ a <= b
                       /\ parts[b].functionResponse.key
                              \in {"response", "result", "content"}
        THEN [name |-> parts[CHOOSE a \in fcalls : TRUE].functionCall.name,
              result |-> parts[CHOOSE b \in fresps : TRUE].functionResponse.value]
        ELSE NoToolCall

\* the texts the parts of the response carry, blank ones aside
CarriedTexts(chunks) ==
    LET parts == AllParts(chunks)
    IN  {Strip(parts[i].text.chars) : i \in 1..Len(parts)} \ {<<>>}

\* the response is made of JSON objects and holds one tool call with a
\* name and a result
C8_OneToolCall ==
    /\ response # <<>>
    /\ \A i \in 1..Len(response) : response[i].json = "object"
    /\ OnlyToolCall(response).name # ""
    /\ Truthy(OnlyToolCall(response).result)

\* C8: when the response holds a tool call and its result in one of the
\* probed shapes, parse_sse_response returns tool_outputs with an entry
\* under the tool's name that holds the result (as sent, or decoded when it
\* was sent as JSON text), and it returns the text reply of the response
\* when the response carries exactly one
C8_RecoversToolOutputs ==
    (parsed.state # "pending" /\ C8_OneToolCall) =>
        /\ parsed.state = "returned"
        /\ \E e \in parsed.tool_outputs :
               /\ e.name = OnlyToolCall(response).name
               /\ e.value \in {OnlyToolCall(response).result,
                               Parsed(OnlyToolCall(response).result)}
        /\ \A t \in CarriedTexts(response) :
               CarriedTexts(response) = {t} =>
                   parsed.assistant_reply = Text(t)

\* the shapes in which the parsers do recover the result of the one tool
\* call: tool_code with a string result, functionCall followed by a
\* functionResponse, and tool_calls, in chunks without "data:" in a text
\* and without an empty list of parts or of actions
C8_RecoveredShapes ==
    (/\ parsed.state # "pending"
     /\ C8_OneToolCall
     /\ \A i \in 1..Len(response) :
            /\ ~HasDataMarker(response[i])
            /\ ~response[i].actions.function_call.present
            /\ response[i].actions.kind # "empty_list"
            /\ response[i].actions.tool_result.form # "object"
            /\ response[i].content.has_parts =>
                   response[i].content.parts # <<>>)
        => /\ parsed.state = "returned"
           /\ \E e \in parsed.tool_outputs :
                  /\ e.name = OnlyToolCall(response).name
                  /\ e.value = Parsed(OnlyToolCall(response).result)

\* the phrases C9 lists
C9_Phrases ==
    {<<"o","r","d","e","r"," ","c","o","n","f","i","r","m","e","d">>,
     <<"o","r","d","e","r"," ","h","a","s"," ","b","e","e","n"," ","p","l","a","c","e","d">>,
     <<"o","r","d","e","r"," ","i","s"," ","c","o","n","f","i","r","m","e","d">>,
     <<"s","u","c","c","e","s","s","f","u","l","l","y"," ","p","l","a","c","e","d"," ","y","o","u","r"," ","o","r","d","e","r">>,
     <<"o","r","d","e","r"," ","h","a","s"," ","b","e","e","n"," ","s","u","b","m","i","t","t","e","d">>,
     <<"o","r","d","e","r"," ","i","d">>,
     <<"o","r","d","e","r"," ","n","u","m","b","e","r">>,
     <<"o","r","d","e","r"," ","p","r","o","c","e","s","s","e","d">>}

\* some JSON message of the response has a first content part whose text
\* contains one of the phrases, whatever the case of its letters
C9_TextNamesOrder ==
    \E i \in 1..Len(Messages(response)) :
        LET m == Messages(response)[i]
        IN  /\ m.json = "object"
            /\ m.content.kind = "dict"
            /\ m.content.has_parts
            /\ Len(m.content.parts) >= 1
            /\ m.content.parts[1].text.present
            /\ \E phrase \in C9_Phrases :
                   Contains(Lower(m.content.parts[1].text.chars), phrase)

----------------------------------------------------------------------------
(* Claims about the Streamlit session                                      *)

\* process_agent_interaction has started work and not left its try statement
InProgress == pc \in {"session", "run", "parsed"}

\* processing_message is True exactly while an interaction is in progress
C10_FlagState == processing_message <=> InProgress

\* an interaction starts work only with the flag False, the history takes a
\* prompt of the chat input only with the flag False, and the flag is False
\* when an interaction leaves its try statement, by completion, by a caught
\* exception or by interruption
C10_FlagStep ==
    /\ (~InProgress /\ InProgress') => ~processing_message
    /\ (/\ Len(messages') = Len(messages) + 1
        /\ messages'[Len(messages')].role = "user"
        /\ messages'[Len(messages')].content \in Prompts) => ~processing_message
    /\ (InProgress /\ ~InProgress') => ~processing_message'

\* C10: within a session at most one agent interaction is in progress:
\* process_agent_interaction starts work only when processing_message is
\* False, user input is not appended to the history while it is True, and it
\* is False again on every exit path of process_agent_interaction
C10_OneInteractionAtATime == []C10_FlagState /\ [][C10_FlagStep]_vars

\* an interaction has ended in the caught exception, its error message is in
\* the history, a prompt typed after it was appended, and the interaction
\* for that prompt is in progress
C10_Witness ==
    /\ InProgress
    /\ processing_message
    /\ Len(messages) = 3
    /\ messages[2] = [role |-> "assistant", content |-> ErrorText]
    /\ messages[3].content \in Prompts

----------------------------------------------------------------------------
(* db_tools.py: access_cart_information                                    *)

\* the mock cart of the except clause (prices in cents)
MockCart ==
    [cart |-> <<[product_id |-> "RUN-S05", name |-> "CloudRunner Running Shoes",
                 quantity |-> 1, price |-> 13999],
                [product_id |-> "RUN-A01", name |-> "Running Socks (3-pack)",
                 quantity |-> 1, price |-> 1576]>>,
     subtotal |-> 15575]

\* the wrapper with its except clause re-raising (mutant)
ToolsCartInformation_Propagates(cart, prods, c, read_fails) ==
    IF read_fails
    THEN [raised |-> TRUE, result |-> [cart |-> <<>>, subtotal |-> 0]]
    ELSE [raised |-> FALSE, result |-> CartInformation(cart, prods, c)]

\* db_tools.access_cart_information: operations.access_cart_information
\* raises when the read fails (it has a finally clause and no except clause),
\* and the wrapper catches every Exception
ToolsCartInformation(cart, prods, c, read_fails) ==
    IF read_fails
    THEN [raised |-> FALSE, result |-> MockCart]
    ELSE [raised |-> FALSE, result |-> CartInformation(cart, prods, c)]

\* db_tools.access_cart_information(customer_id), the read failing or not
ToolsAccessCartInformation(c, read_fails) ==
    LET e == ToolsCartInformation(cart_items, products, c, read_fails)
    IN  /\ last' = [op |-> "db_tools.access_cart_information", customer_id |-> c,
                    read_failed |-> read_fails, raised |-> e.raised,
                    result |-> e.result]
        /\ UNCHANGED dbVars
        /\ UNCHANGED clientVars

NextTools ==
    \/ \E c \in Customers, rq \in RecRequests : ModifyCart(c, rq[1], rq[2])
    \/ \E c \in Customers, read_fails \in BOOLEAN :
            ToolsAccessCartInformation(c, read_fails)

SpecTools == InitDb /\ [][NextTools]_vars

\* the cart C11 names: RUN-S05 x1 and RUN-A01 x1, subtotal 155.75
C11_MockCart ==
    [cart |-> <<[product_id |-> "RUN-S05", name |-> "CloudRunner Running Shoes",
                 quantity |-> 1, price |-> 13999],
                [product_id |-> "RUN-A01", name |-> "Running Socks (3-pack)",
                 quantity |-> 1, price |-> 1576]>>,
     subtotal |-> 15575]

\* C11: db_tools.access_cart_information never propagates an exception; when
\* the database read fails it returns the fixed mock cart, and when the read
\* succeeds it returns the result of the database unchanged
C11_MockCartFallback ==
    last.op = "db_tools.access_cart_information" =>
        /\ ~last.raised
        /\ last.read_failed => last.result = C11_MockCart
        /\ ~last.read_failed =>
               last.result = CartInformation(cart_items, products, last.customer_id)

\* the read failed for a customer whose cart in the database holds an item
C11_Witness ==
    /\ last.op = "db_tools.access_cart_information"
    /\ last.read_failed
    /\ CartInformation(cart_items, products, last.customer_id).cart # <<>>

----------------------------------------------------------------------------
(* init_db.py, add_customers.py: the sample data                           *)

\* a database whose tables were just created
NoProducts == [p \in {} |-> [name |-> "", price |-> 0, sport |-> <<>>]]

\* three rows of the sample products of init_db (prices in cents)
SampleCatalog ==
    [p \in {"TNB-003", "RUN-S05", "RUN-A01"} |->
        IF p \in DOMAIN Catalog THEN Catalog[p]
        ELSE [name |-> "Running Socks (3-pack)", price |-> 1576, sport |-> Running]]

\* the ids generate_customer draws: "CUST-" and eight hex digits
GeneratedIds == {"CUST-80CA281C", "CUST-5B6C7D8E"}

\* init_db adds customers when it finds fewer than this many
CustomerThreshold == 10

\* what add_customers_with_history gives a customer besides its row: no
\* order and no cart, one order, or one cart item
Histories == {"none", "order", "cart"}

\* get_customer: None unless the customers table has the row
GetCustomerResult(custs, c) == [found |-> c \in custs, customer_id |-> c]

\* init_db(clear_existing=True): every table is emptied and the sample
\* customer, products, cart and past order are created
ClearingInit ==
    [products |-> SampleCatalog,
     customers |-> {"123"},
     cart |-> <<[customer_id |-> "123", product_id |-> "RUN-S05", quantity |-> 1],
                [customer_id |-> "123", product_id |-> "RUN-A01", quantity |-> 1]>>,
     orders |-> {[id |-> "ORD-12345678", customer_id |-> "123",
                  status |-> "Completed", total |-> 8598]},
     order_items |-> <<[order_id |-> "ORD-12345678", product_id |-> "TNR-001",
                        quantity |-> 1, price |-> 5999],
                       [order_id |-> "ORD-12345678", product_id |-> "TNB-003",
                        quantity |-> 2, price |-> 599]>>]

\* add_customers_with_history for one generated customer g with history h,
\* the order of the history having the id oid
AddCustomer(db, g, h, oid) ==
    [db EXCEPT
       !.customers = @ \cup {g},
       !.orders = IF h = "order"
                  THEN @ \cup {[id |-> oid, customer_id |-> g,
                                status |-> "Completed",
                                total |-> 2 * db.products["TNB-003"].price]}
                  ELSE @,
       !.order_items = IF h = "order"
                       THEN Append(@, [order_id |-> oid, product_id |-> "TNB-003",
                                       quantity |-> 2,
                                       price |-> db.products["TNB-003"].price])
                       ELSE @,
       !.cart = IF h = "cart"
                THEN Append(@, [customer_id |-> g, product_id |-> "RUN-S05",
                                quantity |-> 1])
                ELSE @]

\* init_db(clear_existing=False): no customer row of its own; products when
\* there are none; generated customers when there are few
DefaultInit(db, g, h, oid) ==
    LET withProducts ==
            [db EXCEPT !.products = IF DOMAIN db.products = {}
                                    THEN SampleCatalog ELSE @]
    IN  IF Cardinality(db.customers) < CustomerThreshold
        THEN AddCustomer(withProducts, g, h, oid)
        ELSE withProducts

\* the database after init_db(clear_existing)
InitDbEffect(db, clear_existing, g, h, oid) ==
    IF clear_existing THEN ClearingInit ELSE DefaultInit(db, g, h, oid)

\* init_db(clear_existing); the ids drawn are fresh
InitDatabase(clear_existing, g, h, oid) ==
    LET db == [products |-> products, customers |-> customers,
               cart |-> cart_items, orders |-> orders,
               order_items |-> order_items]
        e == InitDbEffect(db, clear_existing, g, h, oid)
    IN  /\ ~clear_existing => (g \notin customers /\ \A o \in orders : o.id # oid)
        /\ products' = e.products
        /\ customers' = e.customers
        /\ cart_items' = e.cart
        /\ orders' = e.orders
        /\ order_items' = e.order_items
        /\ last' = [op |-> "init_db", clear_existing |-> clear_existing]
        /\ UNCHANGED clientVars

\* get_customer(customer_id)
GetCustomer(c) ==
    /\ last' = [op |-> "get_customer", customer_id |-> c,
                result |-> GetCustomerResult(customers, c)]
    /\ UNCHANGED dbVars
    /\ UNCHANGED clientVars

\* the database before init_db runs: just created, or holding data
InitAnyDb ==
    /\ \/ products = NoProducts /\ customers = {}
       \/ products = Catalog /\ customers = Customers
    /\ cart_items = <<>>
    /\ orders = {}
    /\ order_items = <<>>
    /\ last = NoCall
    /\ ClientIdle

NextInit ==
    \/ \E clear_existing \in BOOLEAN, g \in GeneratedIds, h \in Histories,
          oid \in OrderIds : InitDatabase(clear_existing, g, h, oid)
    \/ \E c \in Customers : GetCustomer(c)
    \/ \E c \in Customers : AccessCartInformation(c)
    \/ \E c \in Customers, rq \in RecRequests : ModifyCart(c, rq[1], rq[2])

SpecInit == InitAnyDb /\ [][NextInit]_vars

\* C12: after init_db() with its default arguments, get_customer('123')
\* returns a customer record and access_cart_information('123') returns a
\* dictionary with a 'cart' list, whatever the database held before
C12_DefaultInitProvidesCustomer ==
    (last.op = "init_db" /\ ~last.clear_existing) =>
        /\ GetCustomerResult(customers, "123").found
        /\ "cart" \in DOMAIN CartInformation(cart_items, products, "123")

\* after init_db(clear_existing=True) customer '123' is there with a cart
C12_ClearingInitProvidesCustomer ==
    (last.op = "init_db" /\ last.clear_existing) =>
        /\ GetCustomerResult(customers, "123").found
        /\ Len(CartInformation(cart_items, products, "123").cart) = 2

----------------------------------------------------------------------------
(* agent.py: what a user message gets back                                 *)

\* the texts process_agent_interaction may append for a user message
AssistantTexts ==
    {AsString(Strip(TextCart)), AsString(TextOrderId), FallbackText, ErrorText}

\* C13: when process_agent_interaction returns for a user message that does
\* not start with "SYSTEM_", it has appended exactly one assistant message
\* (the reply, the placeholder or the apology), so the last message of the
\* history is not that user message
C13_OneAssistantMessage ==
    [][(FinalizeInteraction /\ ~IsSystemMessage(messages[Len(messages)].content))
          => /\ Len(messages') = Len(messages) + 1
             /\ messages'[Len(messages')].role = "assistant"
             /\ messages'[Len(messages')].content \in AssistantTexts]_vars

\* C14: each user message of the history is sent to the agent at most once
C14_SentAtMostOnce == PostsOf(run_posts, Len(messages)) <= 1

\* a message whose handling ran to its end is not sent again
C14_HandledNotSentAgain ==
    [][ProcessAgentInteraction => PostsOf(run_posts, Len(messages)) = 0]_vars

----------------------------------------------------------------------------
(* order.py: the states of an order submission                             *)

C15_Values == order_submission_state \in {"None", "confirming", "confirmed"}

C15_Step ==
    /\ (order_submission_state # "confirming" /\ order_submission_state' = "confirming")
          => /\ session_cart = "items"
             /\ ~order_confirmed
             /\ messages' = messages
    /\ (order_submission_state # "confirmed" /\ order_submission_state' = "confirmed")
          => /\ order_submission_state = "confirming"
             /\ ~order_confirmed
             /\ messages' = Append(messages,
                                   [role |-> "user", content |-> OrderMessage])
    /\ (order_submission_state = "confirming" /\ order_submission_state' = "None")
          => /\ ~order_confirmed
             /\ messages' = messages

\* C15: order_submission_state is None, 'confirming' or 'confirmed'; it
\* becomes 'confirming' only by Submit Order with a non-empty session cart,
\* 'confirmed' only by Confirm Order from 'confirming', which appends exactly
\* one user order message; Cancel returns it to None and appends nothing;
\* none of these buttons acts while order_confirmed is True
C15_SubmissionStates == []C15_Values /\ [][C15_Step]_vars

\* an order was submitted with items in the cart and then confirmed, and an
\* earlier submission was cancelled: the state is 'confirmed' and the order
\* message is the last of the history
C15_Witness ==
    /\ order_submission_state = "confirmed"
    /\ session_cart = "items"
    /\ messages[Len(messages)] = [role |-> "user", content |-> OrderMessage]

----------------------------------------------------------------------------
(* cart.py: the cart panel                                                 *)

\* display_cart: what the cart panel shows
DisplayCart(submitted, cart) ==
    IF submitted THEN "Your cart has been submitted as an order."
    ELSE IF cart = "empty" THEN "Cart is empty"
    ELSE "cart contents"

\* Start New Order leaves no confirmation, no order details and an empty cart
C16_StartNewOrderClears ==
    [][(order_confirmed /\ ~order_confirmed')
          => (~order_details'.present /\ session_cart' = "empty")]_vars

\* C16: after Start New Order the cart panel shows the cart again, not the
\* notice that the cart was submitted: order_submitted is never True while
\* order_confirmed is False
C16_CartShownAfterNewOrder ==
    ~order_confirmed =>
        /\ ~order_submitted
        /\ DisplayCart(order_submitted, session_cart)
               # "Your cart has been submitted as an order."

----------------------------------------------------------------------------
(* utils.py, agent.py: when the session takes an order as confirmed        *)

\* the response carries an update_salesforce_crm output that reports a
\* created order
ReportsCreatedOrder(tool_outputs) ==
    /\ "update_salesforce_crm" \in Keys(tool_outputs)
    /\ Output(tool_outputs, "update_salesforce_crm") = Obj("order")

\* C17: the session marks an order as confirmed (order_confirmed, and
\* order_submitted after a Confirm Order) only after a response whose
\* update_salesforce_crm output reports a created order
C17_ConfirmedOnlyIfCreated ==
    [][((~order_confirmed /\ order_confirmed')
            \/ (~order_submitted /\ order_submitted'))
          => ReportsCreatedOrder(parsed.tool_outputs)]_vars

----------------------------------------------------------------------------
(* operations.py, db_tools.py: the status update_salesforce_crm returns    *)

UpdateOps == {"operations.update_salesforce_crm", "db_tools.update_salesforce_crm"}

\* C18: both update_salesforce_crm functions return status 'success'
\* exactly when the update succeeded, an order creation asked for by
\* 'items' in details included, and status 'error' exactly when the order
\* creation failed
C18_StatusTellsOutcome ==
    [][(last'.op \in UpdateOps) =>
          LET failed == "items" \in last'.details /\ orders' = orders
          IN  /\ (last'.result.status = "success") <=> ~failed
              /\ (last'.result.status = "error") <=> failed]_vars

\* the status after a failed order creation, function by function
C18_ErrorWhenCreationFailed ==
    [][(last'.op = "db_tools.update_salesforce_crm"
            /\ "items" \in last'.details /\ orders' = orders)
          => last'.result.status = "error"]_vars

----------------------------------------------------------------------------
(* operations.py: modify_cart and the transaction it runs in               *)

\* C19: a modify_cart that returns status 'error' leaves the cart table
\* exactly as it was before the call; what earlier entries of the same call
\* did is rolled back
C19_AllOrNothing ==
    [][(last'.op = "modify_cart" /\ last'.result.status = "error")
          => cart_items' = cart_items]_vars

\* a call whose first entry names a product of the catalogue and whose second
\* entry is malformed returned 'error', and the customer has no row for the
\* product of the first entry
C19_Witness ==
    /\ last.op = "modify_cart"
    /\ last.result.status = "error"
    /\ Len(last.items_to_add) = 2
    /\ last.items_to_add[1].is_dict
    /\ last.items_to_add[1].product_id \in ProductIds
    /\ ~last.items_to_add[2].is_dict
    /\ FirstRow(cart_items, last.customer_id, last.items_to_add[1].product_id) = 0

----------------------------------------------------------------------------
(* operations.py, models.py: the rows of a cart                            *)

\* modify_cart with every request of the cart specification, together with
\* create_order
NextShop ==
    \/ \E c \in Customers, rq \in CartRequests : ModifyCart(c, rq[1], rq[2])
    \/ \E c \in Customers, oid \in OrderIds : CreateOrder(c, oid)
    \/ \E c \in Customers : AccessCartInformation(c)

SpecShop == InitDb /\ [][NextShop]_vars

\* the rows of cart_items customer c has for product p
CartRows(cart, c, p) ==
    {i \in 1..Len(cart) : cart[i].customer_id = c /\ cart[i].product_id = p}

\* C20: after any sequence of completed modify_cart and create_order calls,
\* a modify_cart naming one product twice in items_to_add included, a
\* customer's cart holds at most one entry per product
C20_OneEntryPerProduct ==
    \A c \in Customers, p \in ProductIds :
        /\ Cardinality(CartRows(cart_items, c, p)) <= 1
        /\ Cardinality({i \in 1..Len(CartInformation(cart_items, products, c).cart) :
               CartInformation(cart_items, products, c).cart[i].product_id = p}) <= 1

\* after an order was created, a modify_cart that named one product twice
\* has completed and the customer holds one row of quantity 2 for it
C20_Witness ==
    /\ orders # {}
    /\ last.op = "modify_cart"
    /\ last.result.status = "success"
    /\ Len(last.items_to_add) = 2
    /\ last.items_to_add[1].product_id = last.items_to_add[2].product_id
    /\ \E i \in CartRows(cart_items, last.customer_id, last.items_to_add[1].product_id) :
          cart_items[i].quantity = 2

----------------------------------------------------------------------------
(* utils.py: what parse_sse_response does with chunks it cannot use        *)

\* C21: for every response text parse_sse_response returns its triple
\* (assistant_reply, tool_outputs, order_confirmed) and does not raise; a
\* chunk that is no JSON, no JSON object, or lacks the expected fields is
\* skipped
C21_ParseNeverRaises ==
    (parser = "streamlit_components/utils.py" /\ parsed # NotParsed)
        => parsed.state = "returned"

\* a chunk that is not valid JSON is skipped and the others are processed
C21_InvalidJsonSkipped ==
    (parser = "streamlit_components/utils.py" /\ parsed # NotParsed
        /\ \A i \in 1..Len(response) : response[i].json = "invalid")
        => parsed.state = "returned" /\ parsed.tool_outputs = {}

----------------------------------------------------------------------------
(* agent.py: the agent session is created once                             *)

\* no creation request follows one that succeeded, and session_initialized
\* is True exactly when one has succeeded
C22_Requests ==
    /\ session_request # "repeated"
    /\ session_initialized <=> session_request = "created"

\* a step of ensure_agent_session: a request is issued only while
\* session_initialized is False, none after one has succeeded, and after a
\* failed one session_initialized is False and the run request is next
C22_Step ==
    (pc = "session" /\ pc' # "idle") =>
        /\ session_request' # session_request => ~session_initialized
        /\ session_request = "created" => session_request' = "created"
        /\ session_request' = "failed" => (~session_initialized' /\ pc' = "run")
        /\ pc' = "run"

\* C22: the agent session is created only once per Streamlit session: a
\* creation request is issued before a run request only while
\* session_initialized is False, none is issued after one has succeeded, and
\* a failed attempt leaves session_initialized False and lets the run
\* request of the interaction proceed
C22_SessionCreatedOnce == []C22_Requests /\ [][C22_Step]_vars

\* the first message was posted once, and a later interaction has passed
\* ensure_agent_session with the session created: either the first attempt
\* failed and its run request went out, or this interaction issued no request
C22_Witness ==
    /\ session_request = "created"
    /\ pc = "run"
    /\ Len(messages) = 3
    /\ run_posts = [message |-> 1, posts |-> 1]

============================================================================
